---- MODULE Spec2Model ----
(***************************************************************************)
(* A model of compsys (src/src/index.ts): the System built from a          *)
(* Blueprint, its constructor, and the asynchronous System[start] and      *)
(* System[stop] loops, together with the part of the dependency-graph      *)
(* package (DepGraph, version 0.8) that index.ts calls.                    *)
(***************************************************************************)
EXTENDS Integers, Sequences, FiniteSets, TLC

\* ------------------------------------------------------------------ bounds

\* Largest number of dependency edges a blueprint declares.
MaxEdges == 3
\* Largest number of start()/stop() calls made on one System.
MaxCalls == 2
\* Largest number of new instances the components return in one behaviour.
MaxFresh == 1
\* Largest number of start()/stop() calls a caller that awaits each of them
\* makes on a System of two roles.
MaxCallsPair == 3

\* ------------------------------------------------------------ roles, values

\* type Role = string. Three role names; blueprints declare a prefix of them.
Names == <<"a", "b", "c">>

NameSet == {Names[i] : i \in 1..Len(Names)}

\* The three well-known symbols a component may carry as properties.
Symbols == {"inject", "start", "stop"}

\* type Component = any. A value is an object with an identity and the set of
\* symbols it carries, or a string (the node data addNode gives a role).
ObjectValue(id, caps) == [typ |-> "object", str |-> "", id |-> id, caps |-> caps]

StringValue(s) == [typ |-> "string", str |-> s, id |-> 0, caps |-> {}]

NoValue == [typ |-> "undefined", str |-> "", id |-> 0, caps |-> {}]

\* const isDepender = (x) => typeof x === 'object' && x[inject]
isDepender(x) == x.typ = "object" /\ "inject" \in x.caps

\* A lifecycle guard that takes every object for a lifecycle.
hasLifecycleAnyObject(x) == x.typ = "object"

\* A lifecycle guard that asks for inject as well.
hasLifecycleNeedsInject(x) == x.typ = "object" /\ {"inject", "start", "stop"} \subseteq x.caps

\* const hasLifecycle = (x) => typeof x === 'object' && x[start] && x[stop]
hasLifecycle(x) == x.typ = "object" /\ "start" \in x.caps /\ "stop" \in x.caps

\* ------------------------------------------------------------- errors

NoError == [kind |-> "none", role |-> ""]

\* new Error('Only dependers may have dependencies')
OnlyDependersError == [kind |-> "OnlyDependers", role |-> ""]

\* DepGraph: new Error('Node does not exist: ' + name)
NodeDoesNotExist(name) == [kind |-> "NodeDoesNotExist", role |-> name]

\* DepGraph: new Error('Dependency Cycle Found: ' + path)
DependencyCycleFound == [kind |-> "DependencyCycle", role |-> ""]

\* new Error('System blueprint contains missing roles: ' + missingRoles)
MissingRolesError == [kind |-> "MissingRoles", role |-> ""]

\* A rejection or an exception of a component's own inject, start or stop: the
\* component's error, which tells what failed in it and, a component not
\* being told the role it plays, names no role. System[start] and
\* System[stop] have no catch: what the caller gets is this value as it is.
ComponentError(op, role) == [kind |-> op, role |-> ""]

\* ------------------------------------------------------------- DepGraph

\* new DepGraph(): nodes (with the order of Object.keys), and the two edge maps.
EmptyGraph ==
  [keys |-> <<>>, nodes |-> <<>>, outgoingEdges |-> <<>>, incomingEdges |-> <<>>]

InSeq(x, s) == \E i \in 1..Len(s) : s[i] = x

hasNode(g, name) == InSeq(name, g.keys)

\* addNode(name): a new node's data is its own name; a known node is kept.
addNode(g, name) ==
  IF hasNode(g, name) THEN g
  ELSE [keys |-> Append(g.keys, name),
        nodes |-> g.nodes @@ (name :> StringValue(name)),
        outgoingEdges |-> g.outgoingEdges @@ (name :> <<>>),
        incomingEdges |-> g.incomingEdges @@ (name :> <<>>)]

\* A setNodeData that stores nothing.
setNodeDataDropped(g, name, data) == g

\* setNodeData(name, data), for a node that exists.
setNodeData(g, name, data) == [g EXCEPT !.nodes[name] = data]

getNodeData(g, name) == g.nodes[name]

\* addDependency(from, to), for two nodes that exist: an edge is kept once.
addDependency(g, from, to) ==
  [g EXCEPT
     !.outgoingEdges[from] = IF InSeq(to, @) THEN @ ELSE Append(@, to),
     !.incomingEdges[to] = IF InSeq(from, @) THEN @ ELSE Append(@, from)]

\* createDFS(edges, false, result): the depth-first walk, with the visited set
\* and the result shared by the calls of one closure. st is
\* [visited, result, cycle]; path is the set of nodes of the current path.
RECURSIVE DFS(_, _, _, _)
RECURSIVE DFSEdges(_, _, _, _, _)

DFS(edges, currentNode, path, st) ==
  LET entered == [st EXCEPT !.visited = @ \cup {currentNode}]
      walked == DFSEdges(edges, edges[currentNode], 1, path \cup {currentNode}, entered)
  IN IF walked.cycle THEN walked
     ELSE [walked EXCEPT
             !.result = IF InSeq(currentNode, @) THEN @ ELSE Append(@, currentNode)]

DFSEdges(edges, es, i, path, st) ==
  IF st.cycle \/ i > Len(es) THEN st
  ELSE LET node == es[i]
           next == IF node \notin st.visited THEN DFS(edges, node, path, st)
                   ELSE IF node \in path THEN [st EXCEPT !.cycle = TRUE]
                   ELSE st
       IN DFSEdges(edges, es, i + 1, path, next)

NewDFS == [visited |-> {}, result |-> <<>>, cycle |-> FALSE]

\* keys.forEach(n => DFS(n)) over one closure.
RECURSIVE DFSAll(_, _, _, _)
DFSAll(edges, starts, i, st) ==
  IF st.cycle \/ i > Len(starts) THEN st
  ELSE DFSAll(edges, starts, i + 1, DFS(edges, starts[i], {}, st))

Reverse(s) == [i \in 1..Len(s) |-> s[Len(s) + 1 - i]]

\* A walk that returns the nodes dependents first.
overallOrderDependentsFirst(g) ==
  LET r == DFSAll(g.outgoingEdges, g.keys, 1, NewDFS)
  IN [r EXCEPT !.result = Reverse(@)]

\* A walk from the nodes nothing depends on, without the pass over every
\* node that finds the cycles no such node reaches.
overallOrderRootsOnly(g) ==
  LET roots == SelectSeq(g.keys, LAMBDA n : Len(g.incomingEdges[n]) = 0)
  IN DFSAll(g.outgoingEdges, roots, 1, NewDFS)

\* overallOrder(): throws on a cycle (cycle = TRUE); otherwise the walk from
\* the nodes nothing depends on, each node after the nodes it depends on.
overallOrder(g) ==
  IF Len(g.keys) = 0 THEN NewDFS
  ELSE LET CycleDFS == DFSAll(g.outgoingEdges, g.keys, 1, NewDFS)
           roots == SelectSeq(g.keys, LAMBDA n : Len(g.incomingEdges[n]) = 0)
       IN IF CycleDFS.cycle THEN CycleDFS
          ELSE DFSAll(g.outgoingEdges, roots, 1, NewDFS)

\* dependenciesOf(name): every node name reaches, name itself removed.
dependenciesOf(g, name) ==
  LET r == DFS(g.outgoingEdges, name, {}, NewDFS)
  IN SelectSeq(r.result, LAMBDA n : n # name)

\* ------------------------------------------------------------- blueprints

\* The shapes of the component values a blueprint holds: a plain object, a
\* depender, a lifecycle, an actor with all three, and a depender with start
\* but no stop.
Shapes ==
  { {}, {"inject"}, {"start", "stop"}, {"inject", "start", "stop"},
    {"inject", "start"} }

\* The shapes that start() and stop() tell apart.
RunShapes == { {}, {"inject"}, {"start", "stop"}, {"inject", "start", "stop"} }

\* dependencies: Set<Role>, in its insertion order.
DepSeqs ==
  {s \in UNION {[1..n -> NameSet] : n \in 0..Len(Names)} :
     \A i, j \in 1..Len(s) : i # j => s[i] # s[j]}

Position(name) == CHOOSE i \in 1..Len(Names) : Names[i] = name

\* blueprint.roles: the declared roles, a prefix of Names of two or more.
RoleSeqs == {SubSeq(Names, 1, n) : n \in 2..Len(Names)}

\* The number of dependency edges a blueprint declares.
EdgeCount(f, K) ==
  LET v(n) == IF n \in K THEN Len(f[n]) ELSE 0
  IN v(Names[1]) + v(Names[2]) + v(Names[3])

\* blueprint.components: Map<Role, {component, dependencies}>, in key order.
ComponentEntries(K, shape, deps) ==
  LET ks == SelectSeq(Names, LAMBDA n : n \in K)
  IN [i \in 1..Len(ks) |->
        [role |-> ks[i],
         component |-> ObjectValue(Position(ks[i]), shape[ks[i]]),
         dependencies |-> deps[ks[i]]]]

\* --------------------------------------------------------------- state

VARIABLES
  blueprint,   \* the Blueprint handed to the constructor
  system,      \* "none" | "constructed" | "threw"
  thrown,      \* the error the constructor threw
  components,  \* this.components, the DepGraph
  calls,       \* the start()/stop() calls made, each with its position
  running,     \* the call whose synchronous code runs now, or 0
  log,         \* the operations invoked on the components, in order
  fresh        \* the number of new instances returned so far

vars == <<blueprint, system, thrown, components, calls, running, log, fresh>>

\* ------------------------------------------------------------ constructor

\* A constructor that adds a node for a dependency nobody declared.
RECURSIVE addDependenciesDeclaring(_, _, _, _)
addDependenciesDeclaring(g, role, deps, i) ==
  IF i > Len(deps) THEN [graph |-> g, error |-> NoError]
  ELSE addDependenciesDeclaring(addDependency(addNode(g, deps[i]), role, deps[i]),
                                role, deps, i + 1)

\* dependencies.forEach(dependency => this.components.addDependency(role, dependency))
RECURSIVE addDependencies(_, _, _, _)
addDependencies(g, role, deps, i) ==
  IF i > Len(deps) THEN [graph |-> g, error |-> NoError]
  ELSE IF ~hasNode(g, role) THEN [graph |-> g, error |-> NodeDoesNotExist(role)]
  ELSE IF ~hasNode(g, deps[i]) THEN [graph |-> g, error |-> NodeDoesNotExist(deps[i])]
  ELSE addDependencies(addDependency(g, role, deps[i]), role, deps, i + 1)

\* The guard of one entry with the lifecycle asked for too.
entryRejectedNeedsActor(e) ==
  ~(isDepender(e.component) /\ hasLifecycle(e.component)) /\ Len(e.dependencies) # 0

\* if (!isDepender(component) && dependencies.size !== 0) throw ...
entryRejected(e) == ~isDepender(e.component) /\ Len(e.dependencies) # 0

\* blueprint.components.forEach(({component, dependencies}, role) => ...)
RECURSIVE addComponents(_, _, _)
addComponents(g, entries, i) ==
  IF i > Len(entries) THEN [graph |-> g, error |-> NoError]
  ELSE LET e == entries[i] IN
    IF entryRejected(e) THEN [graph |-> g, error |-> OnlyDependersError]
    ELSE IF ~hasNode(g, e.role) THEN [graph |-> g, error |-> NodeDoesNotExist(e.role)]
    ELSE LET r == addDependencies(setNodeData(g, e.role, e.component),
                                  e.role, e.dependencies, 1)
         IN IF r.error # NoError THEN r
            ELSE addComponents(r.graph, entries, i + 1)

\* A constructor that adds no node for the declared roles.
addNodesNone(g, roles, i) == g

\* [...blueprint.roles.keys()].forEach(role => this.components.addNode(role))
RECURSIVE addNodes(_, _, _)
addNodes(g, roles, i) ==
  IF i > Len(roles) THEN g ELSE addNodes(addNode(g, roles[i]), roles, i + 1)

\* new System(blueprint): the graph built, or the error thrown.
construct(bp) ==
  LET withNodes == addNodes(EmptyGraph, bp.roles, 1)
      r == addComponents(withNodes, bp.components, 1)
      declaredRoles == bp.roles
      missingRoles == SelectSeq(declaredRoles, LAMBDA role : ~hasNode(r.graph, role))
  IN IF r.error # NoError THEN r
     ELSE IF Len(missingRoles) > 0 THEN [graph |-> r.graph, error |-> MissingRolesError]
     ELSE r

\* The state before the constructor runs: nothing built, no call made.
NothingBuilt ==
  /\ system = "none"
  /\ thrown = NoError
  /\ components = EmptyGraph
  /\ calls = <<>>
  /\ running = 0
  /\ log = <<>>
  /\ fresh = 0

\* Every blueprint over Names within MaxEdges: any set of roles may have a
\* component, of any shape, depending on any names.
InitConstruct ==
  /\ \E roles \in RoleSeqs, K \in SUBSET NameSet :
       \E deps \in [K -> DepSeqs] :
         /\ EdgeCount(deps, K) <= MaxEdges
         /\ \E shape \in [K -> Shapes] :
              blueprint = [roles |-> roles,
                           components |-> ComponentEntries(K, shape, deps)]
  /\ NothingBuilt

\* The blueprints whose systems are started and stopped: every declared role
\* has a component, of a shape that differs in what start() and stop() do
\* with it.
Init ==
  /\ \E roles \in RoleSeqs :
       LET K == {roles[i] : i \in 1..Len(roles)} IN
       \E deps \in [K -> DepSeqs] :
         /\ EdgeCount(deps, K) <= MaxEdges
         /\ \E shape \in [K -> RunShapes] :
              blueprint = [roles |-> roles,
                           components |-> ComponentEntries(K, shape, deps)]
  /\ NothingBuilt

\* The blueprints of two roles, each with a component of any shape.
InitPair ==
  /\ LET roles == SubSeq(Names, 1, 2)
         K == {roles[i] : i \in 1..Len(roles)} IN
       \E deps \in [K -> DepSeqs] :
         /\ EdgeCount(deps, K) <= MaxEdges
         /\ \E shape \in [K -> Shapes] :
              blueprint = [roles |-> roles,
                           components |-> ComponentEntries(K, shape, deps)]
  /\ NothingBuilt

Constructor ==
  /\ system = "none"
  /\ LET r == construct(blueprint) IN
       IF r.error # NoError
       THEN /\ system' = "threw"
            /\ thrown' = r.error
            /\ UNCHANGED components
       ELSE /\ system' = "constructed"
            /\ components' = r.graph
            /\ UNCHANGED thrown
  /\ UNCHANGED <<blueprint, calls, running, log, fresh>>

\* -------------------------------------------------------------- calls

\* One start() or stop() call: the order its loop walks, the index of the
\* role it is at, where it stands (pc), the locals of the loop body, how it
\* settled, and the roles its loop has visited.
NewCall(op, order) ==
  [op |-> op, order |-> order, i |-> 1, pc |-> "loop",
   component |-> NoValue, dependencies |-> <<>>, j |-> 1, depender |-> NoValue,
   result |-> "pending", error |-> NoError, visited |-> <<>>]

Rejected(call, error) == [call EXCEPT !.pc = "done", !.result = "rejected", !.error = error]

\* A loop that ends without returning.
ResolvedNever(call) == call

\* return this: the promise of the call resolves.
Resolved(call) == [call EXCEPT !.pc = "done", !.result = "resolved"]

\* An operation invoked on a component (inject, start, stop) or its outcome
\* (started, stopped, failed).
Event(c, ev, role, dep, target, arg, result) ==
  [call |-> c, ev |-> ev, role |-> role, dep |-> dep,
   target |-> target, arg |-> arg, result |-> result]

\* The identity of the next new instance a component returns.
FreshId == Len(Names) + fresh + 1

\* What a component's inject does: return itself, return a new instance, throw.
InjectOutcomes == {"this", "new", "throw"}

\* What a component's start does: resolve to itself, to a new instance, to a
\* new instance without start and stop, or reject.
StartOutcomes == {"this", "new", "bare", "reject"}

\* What a component's stop does: resolve to itself or to a new instance, or reject.
StopOutcomes == {"this", "new", "reject"}

Returned(target, outcome) ==
  CASE outcome = "this" -> target
    [] outcome = "new" -> ObjectValue(FreshId, target.caps)
    [] outcome = "bare" -> ObjectValue(FreshId, target.caps \ {"start", "stop"})

\* A start loop that walks the order backwards.
startOrderReversed(order) == Reverse(order)

\* for (const role of this.components.overallOrder())
startOrder(order) == order

\* The loop order of System[stop] without the reverse.
stopOrderNotReversed(order) == order

\* this.components.overallOrder().reverse()
stopOrder(order) == Reverse(order)

\* ------------------------------------------------------- System[start]

\* async [start](): the call begins; overallOrder() throws on a cycle.
SystemStart ==
  /\ system = "constructed"
  /\ running = 0
  /\ LET oo == overallOrder(components) IN
       IF oo.cycle
       THEN /\ calls' = Append(calls, Rejected(NewCall("start", <<>>), DependencyCycleFound))
            /\ running' = 0
       ELSE /\ calls' = Append(calls, NewCall("start", startOrder(oo.result)))
            /\ running' = Len(calls) + 1
  /\ UNCHANGED <<blueprint, system, thrown, components, log, fresh>>

\* if (hasLifecycle(component)) { ... await component[start]() }: start is
\* invoked on the component fetched at the top of the loop body and the call
\* suspends; a component without a lifecycle is passed over.
startLifecycle(c, call, lg) ==
  IF hasLifecycle(call.component)
  THEN /\ calls' = [calls EXCEPT ![c] = [call EXCEPT !.pc = "await"]]
       /\ log' = Append(lg, Event(c, "start", call.order[call.i], "",
                                  call.component, NoValue, NoValue))
       /\ running' = 0
  ELSE /\ calls' = [calls EXCEPT ![c] = [call EXCEPT !.pc = "loop", !.i = @ + 1]]
       /\ log' = lg
       /\ running' = c

\* The top of the loop body: fetch the component and its dependencies.
StartLoop(c) ==
  /\ running = c
  /\ calls[c].op = "start"
  /\ calls[c].pc = "loop"
  /\ LET call == calls[c] IN
       IF call.i > Len(call.order)
       THEN /\ calls' = [calls EXCEPT ![c] = Resolved(call)]
            /\ running' = 0
            /\ UNCHANGED log
       ELSE LET role == call.order[call.i]
                component == getNodeData(components, role)
                dependencies == dependenciesOf(components, role)
                at == [call EXCEPT !.component = component,
                                   !.dependencies = dependencies,
                                   !.visited = Append(@, role)]
            IN IF isDepender(component) /\ Len(dependencies) > 0
               THEN /\ calls' = [calls EXCEPT ![c] =
                                   [at EXCEPT !.pc = "inject", !.j = 1,
                                              !.depender = component]]
                    /\ UNCHANGED <<log, running>>
               ELSE startLifecycle(c, at, log)
  /\ UNCHANGED <<blueprint, system, thrown, components, fresh>>

\* The value injected for a dependency: the blueprint's, not the graph's.
injectedFromBlueprint(dependency) ==
  LET es == SelectSeq(blueprint.components, LAMBDA e : e.role = dependency)
  IN IF Len(es) = 0 THEN StringValue(dependency) ELSE es[1].component

\* this.components.getNodeData(dependency)
injected(dependency) == getNodeData(components, dependency)

\* A fold that stores what inject returned as the role's component.
foldedDependerStored(g, role, depender) == setNodeData(g, role, depender)

\* What inject returned goes to the local variable depender and nowhere
\* else: the graph is as it was.
foldedDepender(g, role, depender) == g

\* depender = depender[inject](dependency, this.components.getNodeData(dependency))
Inject(c) ==
  /\ running = c
  /\ calls[c].pc = "inject"
  /\ LET call == calls[c]
         role == call.order[call.i]
         dependency == call.dependencies[call.j]
         arg == injected(dependency)
     IN \E outcome \in InjectOutcomes :
          IF outcome = "throw"
          THEN /\ calls' = [calls EXCEPT ![c] = Rejected(call, ComponentError("inject", role))]
               /\ log' = Append(log, Event(c, "inject", role, dependency,
                                           call.depender, arg, NoValue))
               /\ running' = 0
               /\ UNCHANGED <<fresh, components>>
          ELSE /\ outcome = "new" => fresh < MaxFresh
               /\ fresh' = IF outcome = "new" THEN fresh + 1 ELSE fresh
               /\ components' = foldedDepender(components, role,
                                               Returned(call.depender, outcome))
               /\ LET result == Returned(call.depender, outcome)
                      lg == Append(log, Event(c, "inject", role, dependency,
                                              call.depender, arg, result))
                      folded == [call EXCEPT !.depender = result, !.j = @ + 1]
                  IN IF folded.j > Len(call.dependencies)
                     THEN startLifecycle(c, folded, lg)
                     ELSE /\ calls' = [calls EXCEPT ![c] = folded]
                          /\ log' = lg
                          /\ UNCHANGED running
  /\ UNCHANGED <<blueprint, system, thrown>>

\* A start loop that drops what start returned.
startedKeepsOriginal(g, role, result) == g

\* this.components.setNodeData(role, <what start resolved to>)
started(g, role, result) == setNodeData(g, role, result)

\* A start loop that, when a start is rejected, gives every role the call
\* has visited the blueprint's component again.
rejectedStartRollsBack(g, call) ==
  [g EXCEPT !.nodes = [n \in DOMAIN g.nodes |->
                         IF InSeq(n, call.visited) THEN injectedFromBlueprint(n)
                         ELSE g.nodes[n]]]

\* A start loop that, when a start is rejected, clears the entry of the role
\* that failed.
rejectedStartClearsRole(g, call) == setNodeData(g, call.order[call.i], NoValue)

\* The await of a start that rejects throws out of the loop: there is no
\* catch, and the graph stays as the roles started so far left it.
rejectedStart(g, call) == g

\* The awaited start settles: the call resumes, or is rejected.
StartSettle(c) ==
  /\ running = 0
  /\ calls[c].op = "start"
  /\ calls[c].pc = "await"
  /\ LET call == calls[c]
         role == call.order[call.i]
     IN \E outcome \in StartOutcomes :
          IF outcome = "reject"
          THEN /\ calls' = [calls EXCEPT ![c] = Rejected(call, ComponentError("start", role))]
               /\ log' = Append(log, Event(c, "startFailed", role, "",
                                           call.component, NoValue, NoValue))
               /\ components' = rejectedStart(components, call)
               /\ UNCHANGED <<running, fresh>>
          ELSE /\ outcome # "this" => fresh < MaxFresh
               /\ fresh' = IF outcome # "this" THEN fresh + 1 ELSE fresh
               /\ LET result == Returned(call.component, outcome) IN
                    /\ components' = started(components, role, result)
                    /\ log' = Append(log, Event(c, "started", role, "",
                                                call.component, NoValue, result))
               /\ calls' = [calls EXCEPT ![c] = [call EXCEPT !.pc = "loop", !.i = @ + 1]]
               /\ running' = c
  /\ UNCHANGED <<blueprint, system, thrown>>

\* -------------------------------------------------------- System[stop]

\* async [stop](): the call begins; overallOrder() throws on a cycle.
SystemStop ==
  /\ system = "constructed"
  /\ running = 0
  /\ LET oo == overallOrder(components) IN
       IF oo.cycle
       THEN /\ calls' = Append(calls, Rejected(NewCall("stop", <<>>), DependencyCycleFound))
            /\ running' = 0
       ELSE /\ calls' = Append(calls, NewCall("stop", stopOrder(oo.result)))
            /\ running' = Len(calls) + 1
  /\ UNCHANGED <<blueprint, system, thrown, components, log, fresh>>

\* A stop loop that calls inject on the component instead.
stopInvocationRewires(c, role, component) ==
  Event(c, "inject", role, "", component, NoValue, component)

\* component[stop](): the one operation System[stop] invokes on a component.
stopInvocation(c, role, component) ==
  Event(c, "stop", role, "", component, NoValue, NoValue)

\* A stop loop that looks at the component the blueprint gave the role.
stoppingFromBlueprint(role) == injectedFromBlueprint(role)

\* const component = this.components.getNodeData(role): what the role holds
\* now.
stopping(role) == getNodeData(components, role)

\* The loop body of stop: stop is invoked on the role's current component.
StopLoop(c) ==
  /\ running = c
  /\ calls[c].op = "stop"
  /\ calls[c].pc = "loop"
  /\ LET call == calls[c] IN
       IF call.i > Len(call.order)
       THEN /\ calls' = [calls EXCEPT ![c] = Resolved(call)]
            /\ running' = 0
            /\ UNCHANGED log
       ELSE LET role == call.order[call.i]
                component == stopping(role)
                at == [call EXCEPT !.component = component,
                                   !.visited = Append(@, role)]
            IN IF hasLifecycle(component)
               THEN /\ calls' = [calls EXCEPT ![c] = [at EXCEPT !.pc = "await"]]
                    /\ log' = Append(log, stopInvocation(c, role, component))
                    /\ running' = 0
               ELSE /\ calls' = [calls EXCEPT ![c] = [at EXCEPT !.i = @ + 1]]
                    /\ UNCHANGED <<log, running>>
  /\ UNCHANGED <<blueprint, system, thrown, components, fresh>>

\* A stop loop that drops the dependencies of the role it stopped.
stoppedForgetsDependencies(g, role, result) ==
  [setNodeData(g, role, result) EXCEPT
     !.outgoingEdges[role] = <<>>,
     !.incomingEdges = [n \in DOMAIN @ |-> SelectSeq(@[n], LAMBDA m : m # role)]]

\* this.components.setNodeData(role, <what stop resolved to>)
stopped(g, role, result) == setNodeData(g, role, result)

\* The awaited stop settles: the call resumes, or is rejected.
StopSettle(c) ==
  /\ running = 0
  /\ calls[c].op = "stop"
  /\ calls[c].pc = "await"
  /\ LET call == calls[c]
         role == call.order[call.i]
     IN \E outcome \in StopOutcomes :
          IF outcome = "reject"
          THEN /\ calls' = [calls EXCEPT ![c] = Rejected(call, ComponentError("stop", role))]
               /\ log' = Append(log, Event(c, "stopFailed", role, "",
                                           call.component, NoValue, NoValue))
               /\ UNCHANGED <<components, running, fresh>>
          ELSE /\ outcome # "this" => fresh < MaxFresh
               /\ fresh' = IF outcome # "this" THEN fresh + 1 ELSE fresh
               /\ LET result == Returned(call.component, outcome) IN
                    /\ components' = stopped(components, role, result)
                    /\ log' = Append(log, Event(c, "stopped", role, "",
                                                call.component, NoValue, result))
               /\ calls' = [calls EXCEPT ![c] = [call EXCEPT !.pc = "loop", !.i = @ + 1]]
               /\ running' = c
  /\ UNCHANGED <<blueprint, system, thrown>>

\* ---------------------------------------------------------- behaviours

\* No call is in flight: every call made has settled.
Idle == \A k \in 1..Len(calls) : calls[k].pc = "done"

\* await system.start(), by a caller that awaits each call before the next.
AwaitedStart == Idle /\ Len(calls) < MaxCalls /\ SystemStart

\* await system.stop(), by a caller that awaits each call before the next.
AwaitedStop == Idle /\ Len(calls) < MaxCalls /\ SystemStop

\* A caller that awaits each call before it makes the next.
Next ==
  \/ Constructor
  \/ AwaitedStart
  \/ AwaitedStop
  \/ \E c \in 1..Len(calls) : StartLoop(c)
  \/ \E c \in 1..Len(calls) : Inject(c)
  \/ \E c \in 1..Len(calls) : StartSettle(c)
  \/ \E c \in 1..Len(calls) : StopLoop(c)
  \/ \E c \in 1..Len(calls) : StopSettle(c)

Spec == Init /\ [][Next]_vars

\* await system.start(), by a caller of a System of two roles that awaits
\* each call and makes up to MaxCallsPair of them.
AwaitedStartPair == Idle /\ Len(calls) < MaxCallsPair /\ SystemStart

\* await system.stop(), by the same caller.
AwaitedStopPair == Idle /\ Len(calls) < MaxCallsPair /\ SystemStop

\* A System of two roles and a caller that awaits each of its calls.
NextPair ==
  \/ Constructor
  \/ AwaitedStartPair
  \/ AwaitedStopPair
  \/ \E c \in 1..Len(calls) : StartLoop(c)
  \/ \E c \in 1..Len(calls) : Inject(c)
  \/ \E c \in 1..Len(calls) : StartSettle(c)
  \/ \E c \in 1..Len(calls) : StopLoop(c)
  \/ \E c \in 1..Len(calls) : StopSettle(c)

SpecPair == InitPair /\ [][NextPair]_vars

\* The synchronous code of a call runs on until it awaits or returns (a
\* JavaScript job runs to completion), every inject returns, and every promise
\* a component's start or stop returned settles.
Settles ==
  /\ WF_vars(\E c \in 1..Len(calls) : StartLoop(c))
  /\ WF_vars(\E c \in 1..Len(calls) : Inject(c))
  /\ WF_vars(\E c \in 1..Len(calls) : StartSettle(c))
  /\ WF_vars(\E c \in 1..Len(calls) : StopLoop(c))
  /\ WF_vars(\E c \in 1..Len(calls) : StopSettle(c))

\* A System of two roles whose components' promises settle.
SpecPairLive == InitPair /\ [][NextPair]_vars /\ Settles

\* system.start(), by a caller that does not wait: the call is made whenever
\* no synchronous code of the System runs, an earlier call being suspended
\* on a component's promise or not.
CalledStart == Len(calls) < MaxCalls /\ SystemStart

\* system.stop(), by a caller that does not wait.
CalledStop == Len(calls) < MaxCalls /\ SystemStop

\* A System of two roles and a caller that makes its calls without waiting
\* for the ones before.
NextOverlap ==
  \/ Constructor
  \/ CalledStart
  \/ CalledStop
  \/ \E c \in 1..Len(calls) : StartLoop(c)
  \/ \E c \in 1..Len(calls) : Inject(c)
  \/ \E c \in 1..Len(calls) : StartSettle(c)
  \/ \E c \in 1..Len(calls) : StopLoop(c)
  \/ \E c \in 1..Len(calls) : StopSettle(c)

SpecOverlap == InitPair /\ [][NextOverlap]_vars

\* The constructor alone, over every blueprint.
SpecConstruct == InitConstruct /\ [][Constructor]_vars

\* ------------------------------------------------- reading a behaviour

\* The declared roles of the blueprint.
Declared == {blueprint.roles[i] : i \in 1..Len(blueprint.roles)}

HasEntry(r) == \E i \in 1..Len(blueprint.components) : blueprint.components[i].role = r

EntryOf(r) ==
  blueprint.components[CHOOSE i \in 1..Len(blueprint.components) :
                         blueprint.components[i].role = r]

\* The dependency set the blueprint declares for a role.
DeclaredDeps(r) ==
  IF HasEntry(r)
  THEN {EntryOf(r).dependencies[i] : i \in 1..Len(EntryOf(r).dependencies)}
  ELSE {}

\* The value a role holds when the constructor returns.
InitialValue(r) == IF HasEntry(r) THEN EntryOf(r).component ELSE StringValue(r)

\* The roles reached from the roles of S along declared dependencies.
RECURSIVE Reaches(_, _)
Reaches(S, n) ==
  IF n = 0 THEN S ELSE Reaches(S \cup UNION {DeclaredDeps(x) : x \in S}, n - 1)

\* The declared dependency relation has a cycle.
Cyclic == \E r \in NameSet : r \in Reaches(DeclaredDeps(r), Len(Names))

ExposesInject(x) == x.typ = "object" /\ "inject" \in x.caps

ExposesLifecycle(x) == x.typ = "object" /\ {"start", "stop"} \subseteq x.caps

\* An Actor in the words of the specification: all three operations.
IsActor(x) == ExposesInject(x) /\ ExposesLifecycle(x)

\* The positions in the log of call c's events of one kind.
EventsOf(c, ev) == {k \in 1..Len(log) : log[k].call = c /\ log[k].ev = ev}

\* The roles of call c's events of one kind, in the order they happened.
RolesOf(c, ev) ==
  LET es == SelectSeq(log, LAMBDA e : e.call = c /\ e.ev = ev)
  IN [i \in 1..Len(es) |-> es[i].role]

IsPrefix(s, t) == Len(s) <= Len(t) /\ \A i \in 1..Len(s) : s[i] = t[i]

\* Call c is a start() that resolved and call c + 1 is the stop() after it.
StartThenStop(c) ==
  /\ c + 1 <= Len(calls)
  /\ calls[c].op = "start"
  /\ calls[c].result = "resolved"
  /\ calls[c + 1].op = "stop"

\* The entries of the blueprint's components that have a dependency nobody
\* declared, and the undeclared dependencies of an entry in their order.
UndeclaredOf(e) == SelectSeq(e.dependencies, LAMBDA d : d \notin Declared)

HasUndeclaredDependency ==
  \E i \in 1..Len(blueprint.components) : Len(UndeclaredOf(blueprint.components[i])) > 0

NoInjectWithDependencies(e) == ~ExposesInject(e.component) /\ Len(e.dependencies) # 0

\* What is wrong with one entry, in the order the constructor meets it.
FaultOf(e) ==
  IF NoInjectWithDependencies(e) THEN OnlyDependersError
  ELSE IF e.role \notin Declared THEN NodeDoesNotExist(e.role)
  ELSE IF Len(UndeclaredOf(e)) > 0 THEN NodeDoesNotExist(UndeclaredOf(e)[1])
  ELSE NoError

FaultyEntries == {i \in 1..Len(blueprint.components) : FaultOf(blueprint.components[i]) # NoError}

\* The fault of the first faulty entry of the blueprint, if any.
FirstFault ==
  IF FaultyEntries = {} THEN NoError
  ELSE FaultOf(blueprint.components[CHOOSE i \in FaultyEntries :
                                      \A j \in FaultyEntries : i <= j])

\* ----------------------------------------------------------------- C1

\* C1: the first call on a System being start(), it invokes the start of
\* no role twice; when it resolves it has invoked (and seen complete) the
\* start of exactly the roles whose component has a lifecycle, once each;
\* and whenever it invokes the start of a role r, the start of every declared
\* dependency of r that has a lifecycle has already completed.
C1_StartsEachRoleOnceAfterItsDependencies ==
  (Len(calls) >= 1 /\ calls[1].op = "start") =>
    /\ \A r \in Declared :
         Cardinality({k \in EventsOf(1, "start") : log[k].role = r}) <= 1
    /\ calls[1].result = "resolved" =>
         \A r \in Declared :
           LET n == IF ExposesLifecycle(InitialValue(r)) THEN 1 ELSE 0 IN
             /\ Cardinality({k \in EventsOf(1, "start") : log[k].role = r}) = n
             /\ Cardinality({k \in EventsOf(1, "started") : log[k].role = r}) = n
    /\ \A k \in EventsOf(1, "start") :
         \A d \in DeclaredDeps(log[k].role) :
           ExposesLifecycle(InitialValue(d)) =>
             \E k2 \in EventsOf(1, "started") : k2 < k /\ log[k2].role = d

\* A start() that resolved after starting three roles, one of which declares
\* the two others as its dependencies.
C1_Witness ==
  /\ Len(calls) = 1
  /\ calls[1].op = "start"
  /\ calls[1].result = "resolved"
  /\ Cardinality(EventsOf(1, "start")) = 3
  /\ \E r \in Declared : Cardinality(DeclaredDeps(r)) = 2

\* ----------------------------------------------------------------- C2

\* C2: when stop() is called after a start() that resolved, the roles its
\* loop visits are the roles the start() visited, in the reverse order (all
\* of them once the stop() resolves), and the roles whose stop it invokes are,
\* in reverse order, the roles the start() started whose started instance
\* still has a lifecycle.
C2_StopVisitsTheReverseOfStart ==
  \A c \in 1..Len(calls) : StartThenStop(c) =>
    LET rev == Reverse(calls[c].visited)
        live == SelectSeq(log, LAMBDA e : e.call = c /\ e.ev = "started"
                                           /\ ExposesLifecycle(e.result))
        liveRoles == [i \in 1..Len(live) |-> live[i].role]
    IN /\ IsPrefix(calls[c + 1].visited, rev)
       /\ IsPrefix(RolesOf(c + 1, "stop"), Reverse(liveRoles))
       /\ calls[c + 1].result = "resolved" =>
            /\ calls[c + 1].visited = rev
            /\ RolesOf(c + 1, "stop") = Reverse(liveRoles)

\* A start() and then a stop(), both resolved, over three roles with a
\* dependency among them, at least two of them stopped.
C2_Witness ==
  /\ StartThenStop(1)
  /\ calls[2].result = "resolved"
  /\ Len(calls[2].visited) = 3
  /\ Cardinality(EventsOf(2, "stop")) >= 2
  /\ \E r \in Declared : DeclaredDeps(r) # {}

\* ----------------------------------------------------------------- C3

\* C3: whenever a stop() invokes the stop of a role d, every role r that
\* declares d as a dependency has been visited by that stop() before d, and
\* its stop has completed unless its component had no lifecycle.
C3_StopsDependentsBeforeTheirDependencies ==
  \A k \in 1..Len(log) : log[k].ev = "stop" =>
    LET c == log[k].call
        d == log[k].role
        v == calls[c].visited
    IN \A r \in Declared : d \in DeclaredDeps(r) =>
         /\ \E i, j \in 1..Len(v) : i < j /\ v[i] = r /\ v[j] = d
         /\ \/ \E k2 \in EventsOf(c, "stopped") : k2 < k /\ log[k2].role = r
            \/ ~\E k2 \in EventsOf(c, "stop") : log[k2].role = r

\* The stop of a dependency invoked after the stop of its dependent completed.
C3_Witness ==
  \E k \in 1..Len(log) :
    /\ log[k].ev = "stop"
    /\ \E k2 \in 1..(k - 1) :
         /\ log[k2].ev = "stopped"
         /\ log[k2].call = log[k].call
         /\ log[k].role \in DeclaredDeps(log[k2].role)

\* ----------------------------------------------------------------- C4

C6_NonActorWithDependenciesFails ==
  (system # "none"
     /\ ~Cyclic
     /\ \E i \in 1..Len(blueprint.components) :
          /\ Len(blueprint.components[i].dependencies) # 0
          /\ ~IsActor(blueprint.components[i].component))
  => system = "threw"

\* C6 amended: construction fails when some role has dependencies and a
\* component that exposes no inject; start and stop play no part. The error
\* is the composition error exactly when the first faulty entry is such a
\* role, and construction succeeds exactly when no entry is faulty.
C6_NonDependerWithDependenciesFails ==
  system # "none" =>
    /\ (\E i \in 1..Len(blueprint.components) :
          NoInjectWithDependencies(blueprint.components[i])) => system = "threw"
    /\ thrown = FirstFault
    /\ system = "constructed" <=> FirstFault = NoError

\* Construction failed with the composition error on a component that has a
\* lifecycle but no inject.
C6_Witness ==
  /\ system = "threw"
  /\ thrown = OnlyDependersError
  /\ \E i \in 1..Len(blueprint.components) :
       /\ blueprint.components[i].component.caps = {"start", "stop"}
       /\ Len(blueprint.components[i].dependencies) # 0

\* ----------------------------------------------------------------- C7

\* C7: whenever a start() call injects a dependency d, no start of d is
\* pending in that call, and if that call started d the value injected is the
\* instance d's start resolved to; in the first call on a System every
\* injected dependency whose component has a lifecycle has been started.
C7_InjectsTheStartedInstance ==
  \A k \in 1..Len(log) : log[k].ev = "inject" =>
    LET c == log[k].call
        d == log[k].dep
    IN /\ \A k2 \in EventsOf(c, "start") : log[k2].role = d =>
            \E k3 \in EventsOf(c, "started") : k2 < k3 /\ k3 < k /\ log[k3].role = d
       /\ \A k3 \in EventsOf(c, "started") :
            (k3 < k /\ log[k3].role = d) => log[k].arg = log[k3].result
       /\ (c = 1 /\ ExposesLifecycle(InitialValue(d))) =>
            \E k3 \in EventsOf(c, "started") : k3 < k /\ log[k3].role = d

\* A dependency whose start resolved to a new instance, injected as that
\* new instance.
C7_Witness ==
  \E k \in 1..Len(log) :
    /\ log[k].ev = "inject"
    /\ \E k3 \in 1..(k - 1) :
         /\ log[k3].ev = "started"
         /\ log[k3].call = log[k].call
         /\ log[k3].role = log[k].dep
         /\ log[k3].result # log[k3].target
         /\ log[k].arg = log[k3].result

\* ----------------------------------------------------------------- C8

\* C8: a stop() called after a start() that resolved invokes the stop of a
\* role on the instance that role's start resolved to, and, until another
\* call is made, each role it has stopped holds the instance its stop
\* resolved to.
C8_StopsTheStartedInstance ==
  \A c \in 1..Len(calls) : StartThenStop(c) =>
    /\ \A k \in EventsOf(c + 1, "stop") :
         \E k2 \in EventsOf(c, "started") :
           log[k2].role = log[k].role /\ log[k2].result = log[k].target
    /\ c + 1 = Len(calls) =>
         \A k \in EventsOf(c + 1, "stopped") :
           getNodeData(components, log[k].role) = log[k].result

\* A role whose start resolved to a new instance, stopped on that instance
\* by a stop() that resolved.
C8_Witness ==
  /\ StartThenStop(1)
  /\ calls[2].result = "resolved"
  /\ \E k \in EventsOf(2, "stopped") :
       /\ log[k].target.id > Len(Names)
       /\ getNodeData(components, log[k].role) = log[k].result

\* ----------------------------------------------------------------- C9

\* C9 as stated: when inject or start of a role fails during start(), the
\* call is rejected, it invokes nothing more, and the System is Failed: a
\* state no later start() or stop() leaves, each being refused before it
\* invokes any operation of a component.
C9_FailedStartLeavesTheSystemFailed ==
  \A c \in 1..Len(calls) :
    (calls[c].op = "start" /\ calls[c].error.kind \in {"inject", "start"}) =>
      /\ calls[c].result = "rejected"
      /\ \A k \in 1..Len(log) : log[k].call = c =>
           InSeq(log[k].role, SubSeq(calls[c].order, 1, calls[c].i))
      /\ \A c2 \in (c + 1)..Len(calls) :
           /\ \A k \in 1..Len(log) : log[k].call # c2
           /\ calls[c2].pc = "done" => calls[c2].result = "rejected"

\* ---------------------------------------------------------------- C10

\* C10 as stated: a stop() called when the System is not Started (the call
\* before it is not a start() that resolved) is refused and invokes no
\* operation of a component.
C10_StopOnlyFromStarted ==
  \A c \in 1..Len(calls) :
    (calls[c].op = "stop"
       /\ ~(c > 1 /\ calls[c - 1].op = "start" /\ calls[c - 1].result = "resolved")) =>
      /\ \A k \in 1..Len(log) : log[k].call # c
      /\ calls[c].pc = "done" => calls[c].result = "rejected"

\* ---------------------------------------------------------------- C11

\* C11 as stated: a start() called after an earlier start() was called (the
\* System is then Started, Stopped or Failed, never NotStarted again) is
\* refused and invokes no inject and no start.
C11_StartOnlyFromNotStarted ==
  \A c \in 1..Len(calls) : \A c2 \in 1..(c - 1) :
    (calls[c].op = "start" /\ calls[c2].op = "start") =>
      /\ \A k \in 1..Len(log) : log[k].call # c
      /\ calls[c].pc = "done" => calls[c].result = "rejected"

\* ---------------------------------------------------------------- C12

\* C12 as stated: a call made while an earlier call is in flight is refused
\* and invokes no operation of a component; so while the first call on a
\* System, a start(), has not settled, no later call has invoked an operation
\* of a component, waits for one, or has resolved.
C12_CallInFlightRefusesLaterCalls ==
  (Len(calls) >= 1 /\ calls[1].op = "start" /\ calls[1].pc # "done") =>
    \A c \in 2..Len(calls) :
      /\ \A k \in 1..Len(log) : log[k].call # c
      /\ calls[c].pc # "await"
      /\ calls[c].pc = "done" => calls[c].result = "rejected"

\* ---------------------------------------------------------------- C13

\* C13: a start() that fails, at an inject or at a start, has invoked no
\* stop; and, until another call is made, every role whose start completed
\* in it holds the instance that start resolved to.
C13_FailedStartRollsNothingBack ==
  \A c \in 1..Len(calls) :
    (calls[c].op = "start" /\ calls[c].error.kind \in {"inject", "start"}) =>
      /\ \A k \in 1..Len(log) :
           log[k].call = c => log[k].ev \notin {"stop", "stopped", "stopFailed"}
      /\ c = Len(calls) =>
           \A k \in EventsOf(c, "started") :
             getNodeData(components, log[k].role) = log[k].result

\* A start() rejected by the start of its second or third role, after the
\* start of an earlier role resolved to a new instance.
C13_Witness ==
  /\ Len(calls) = 1
  /\ calls[1].op = "start"
  /\ calls[1].result = "rejected"
  /\ calls[1].error.kind = "start"
  /\ \E k \in EventsOf(1, "started") :
       /\ log[k].result.id > Len(Names)
       /\ getNodeData(components, log[k].role) = log[k].result

\* ---------------------------------------------------------------- C14

\* C14 as stated: the error a start() or stop() is rejected with, when an
\* inject, a start or a stop of a component failed, is the component's
\* failure and names the role whose component failed.
C14_FailureNamesTheRole ==
  \A c \in 1..Len(calls) :
    calls[c].error.kind \in {"inject", "start", "stop"} =>
      /\ calls[c].result = "rejected"
      /\ calls[c].error.role = calls[c].order[calls[c].i]

\* ---------------------------------------------------------------- C15

\* C15: when the constructor has returned or thrown, and no call has been
\* made yet, no inject, start or stop of a component has been invoked and no
\* component has returned an instance; if it returned, every declared role
\* holds the component the blueprint gives it (a declared role the blueprint
\* gives no component holds its own name, as addNode left it).
C15_ConstructionTouchesNoComponent ==
  (system # "none" /\ calls = <<>>) =>
    /\ log = <<>>
    /\ fresh = 0
    /\ system = "constructed" =>
         \A r \in Declared :
           /\ hasNode(components, r)
           /\ HasEntry(r) => getNodeData(components, r) = EntryOf(r).component
           /\ ~HasEntry(r) => getNodeData(components, r) = StringValue(r)

\* A System constructed from a blueprint in which an actor with a lifecycle
\* has dependencies.
C15_Witness ==
  /\ system = "constructed"
  /\ \E i \in 1..Len(blueprint.components) :
       /\ IsActor(blueprint.components[i].component)
       /\ Len(blueprint.components[i].dependencies) # 0
       /\ getNodeData(components, blueprint.components[i].role)
            = blueprint.components[i].component

\* ---------------------------------------------------------------- C16

\* C16 as stated: when a start() invokes the start of a role after injecting
\* its dependencies, it invokes it on the instance the last of those inject
\* calls returned.
C16_StartsTheInjectedInstance ==
  \A k \in 1..Len(log) : log[k].ev = "start" =>
    LET injs == {k2 \in EventsOf(log[k].call, "inject") :
                   log[k2].role = log[k].role /\ k2 < k}
    IN injs # {} =>
         LET last == CHOOSE k2 \in injs : \A k3 \in injs : k3 <= k2
         IN log[k].target = log[last].result

\* ---------------------------------------------------------------- C17

\* C17 as stated: in one start() call a role is injected only with the
\* dependencies the blueprint declares for it, each at most once, and when
\* the start of a depender is invoked each of its declared dependencies has
\* been injected into it.
C17_InjectsTheDeclaredDependencies ==
  /\ \A k \in 1..Len(log) : log[k].ev = "inject" =>
       /\ log[k].dep \in DeclaredDeps(log[k].role)
       /\ \A k2 \in EventsOf(log[k].call, "inject") :
            (log[k2].role = log[k].role /\ log[k2].dep = log[k].dep) => k2 = k
  /\ \A k \in 1..Len(log) :
       (log[k].ev = "start" /\ ExposesInject(log[k].target)) =>
         \A d \in DeclaredDeps(log[k].role) :
           \E k2 \in EventsOf(log[k].call, "inject") :
             k2 < k /\ log[k2].role = log[k].role /\ log[k2].dep = d

\* ---------------------------------------------------------------- C18

\* C18 as stated: when the stop of a role fails during a stop() called after
\* a start() that resolved, the stop() is rejected, it has invoked nothing on
\* the roles after that one in its order, and the System is Failed: every
\* later call is refused before it invokes any operation of a component.
C18_FailedStopLeavesTheSystemFailed ==
  \A c \in 1..Len(calls) :
    (StartThenStop(c) /\ calls[c + 1].error.kind = "stop") =>
      /\ calls[c + 1].result = "rejected"
      /\ \A k \in 1..Len(log) : log[k].call = c + 1 =>
           InSeq(log[k].role, SubSeq(calls[c + 1].order, 1, calls[c + 1].i))
      /\ \A c2 \in (c + 2)..Len(calls) :
           /\ \A k \in 1..Len(log) : log[k].call # c2
           /\ calls[c2].pc = "done" => calls[c2].result = "rejected"

\* ---------------------------------------------------------------- C19

\* C19: in a System that was constructed, a role whose component is passive
\* (an object with neither inject nor start and stop) holds the blueprint's
\* component whatever start() and stop() calls were made; no inject, start or
\* stop is ever invoked on it; and whenever it is injected into a dependent
\* the value injected is the blueprint's component.
C19_PassiveComponentIsLeftAlone ==
  system = "constructed" =>
    \A r \in Declared :
      (HasEntry(r) /\ InitialValue(r).caps = {}) =>
        /\ getNodeData(components, r) = InitialValue(r)
        /\ \A k \in 1..Len(log) : log[k].role # r
        /\ \A k \in 1..Len(log) :
             (log[k].ev = "inject" /\ log[k].dep = r) => log[k].arg = InitialValue(r)

\* A start() and a stop() that both resolved on a System in which a passive
\* component was injected into a dependent that has a lifecycle.
C19_Witness ==
  /\ StartThenStop(1)
  /\ calls[2].result = "resolved"
  /\ \E k \in EventsOf(1, "inject") :
       /\ InitialValue(log[k].dep).caps = {}
       /\ log[k].arg = InitialValue(log[k].dep)
       /\ \E k2 \in EventsOf(2, "stopped") : log[k2].role = log[k].role

\* ---------------------------------------------------------------- C20

\* C20 as stated: at every instant at most one start or stop of a component
\* invoked by the System is in flight, whatever calls its callers make.
C20_OneOperationInFlight ==
  Cardinality({c \in 1..Len(calls) : calls[c].pc = "await"}) <= 1

\* ---------------------------------------------------------------- C21

\* C21: every operation a stop() call invokes on a component is a stop: the
\* events of a stop() are the invocation of a stop and its outcome, never an
\* inject or a start.
C21_StopInvokesOnlyStop ==
  \A k \in 1..Len(log) :
    calls[log[k].call].op = "stop" => log[k].ev \in {"stop", "stopped", "stopFailed"}

\* A stop() that resolved after stopping an actor into which the start()
\* before it had injected a dependency.
C21_Witness ==
  /\ StartThenStop(1)
  /\ calls[2].result = "resolved"
  /\ \E k \in EventsOf(1, "inject") :
       \E k2 \in EventsOf(2, "stopped") : log[k2].role = log[k].role

\* ---------------------------------------------------------------- C22

\* C22: when every inject returns and every start and stop promise settles,
\* every start() and stop() call made eventually settles; and a call that
\* resolved has visited every role of its order, while a call rejected by a
\* component stopped at the role that failed.
C22_EveryCallSettles ==
  /\ \A c \in 1..MaxCallsPair :
       (Len(calls) >= c) ~> (Len(calls) >= c /\ calls[c].pc = "done")
  /\ [](\A c \in 1..Len(calls) :
          /\ calls[c].result = "resolved" =>
               (calls[c].pc = "done" /\ calls[c].visited = calls[c].order)
          /\ calls[c].result = "rejected" =>
               (calls[c].pc = "done"
                  /\ calls[c].visited = SubSeq(calls[c].order, 1, Len(calls[c].visited))))

\* A start() that resolved after two starts it awaited, a stop() after it
\* that was rejected by a component, and a third call that resolved.
C22_Witness ==
  /\ Len(calls) = 3
  /\ StartThenStop(1)
  /\ Cardinality(EventsOf(1, "started")) = 2
  /\ calls[2].result = "rejected"
  /\ calls[2].error.kind = "stop"
  /\ calls[3].result = "resolved"

\* ---------------------------------------------------------------- C23

\* The events that report what a start or a stop of role r resolved to.
WritesOf(r) == {k \in 1..Len(log) : log[k].role = r /\ log[k].ev \in {"started", "stopped"}}

\* C23: in a System that was constructed each declared role holds what the
\* last start or stop of that role resolved to, or the blueprint's component
\* if none resolved yet, whatever the inject calls returned; so a role whose
\* component has inject but no lifecycle holds the blueprint's component.
C23_OnlyStartAndStopAreStored ==
  system = "constructed" =>
    \A r \in Declared :
      /\ getNodeData(components, r) =
           IF WritesOf(r) = {} THEN InitialValue(r)
           ELSE log[CHOOSE k \in WritesOf(r) : \A k2 \in WritesOf(r) : k2 <= k].result
      /\ InitialValue(r).caps = {"inject"} => getNodeData(components, r) = InitialValue(r)

\* A start() that resolved after the inject of a component without a
\* lifecycle returned a new instance: the role holds the original.
C23_Witness ==
  /\ Len(calls) >= 1
  /\ calls[1].op = "start"
  /\ calls[1].result = "resolved"
  /\ \E k \in EventsOf(1, "inject") :
       /\ log[k].target.caps = {"inject"}
       /\ log[k].result # log[k].target
       /\ getNodeData(components, log[k].role) = log[k].target

\* ---------------------------------------------------------------- C24

\* What role r held when call c was made: what the last start or stop of r
\* resolved to in an earlier call, or the blueprint's component.
ValueBefore(r, c) ==
  LET ws == {k \in WritesOf(r) : log[k].call < c}
  IN IF ws = {} THEN InitialValue(r)
     ELSE log[CHOOSE k \in ws : \A k2 \in ws : k2 <= k].result

\* C24: when the last call made was rejected by a component at role x, x and
\* every role after x in the call's order hold what they held when the call
\* was made; and if the call is a start(), every role before x that had a
\* lifecycle then holds the instance its start resolved to in this call.
C24_FailureLeavesLaterRolesUntouched ==
  \A c \in 1..Len(calls) :
    (c = Len(calls) /\ calls[c].error.kind \in {"inject", "start", "stop"}) =>
      LET call == calls[c] IN
        /\ \A j \in call.i..Len(call.order) :
             getNodeData(components, call.order[j]) = ValueBefore(call.order[j], c)
        /\ call.op = "start" =>
             \A j \in 1..(call.i - 1) :
               ExposesLifecycle(ValueBefore(call.order[j], c)) =>
                 \E k \in EventsOf(c, "started") :
                   /\ log[k].role = call.order[j]
                   /\ getNodeData(components, call.order[j]) = log[k].result

\* A start() over three roles rejected by the start of the second, after the
\* start of the first resolved to a new instance: the first holds it, the
\* second and the third hold the blueprint's components.
C24_Witness ==
  /\ Len(calls) = 1
  /\ calls[1].op = "start"
  /\ calls[1].error.kind = "start"
  /\ Len(calls[1].order) = 3
  /\ calls[1].i = 2
  /\ getNodeData(components, calls[1].order[1]).id > Len(Names)
  /\ getNodeData(components, calls[1].order[2]) = InitialValue(calls[1].order[2])
  /\ ExposesLifecycle(InitialValue(calls[1].order[3]))

\* ---------------------------------------------------------------- C25

\* C25: a System that was constructed keeps the nodes and the edges the
\* constructor built, in their order, whatever calls were made; and every
\* call that was not refused for a cycle walks the order of that graph, a
\* start() forwards and a stop() backwards.
C25_GraphIsFixedAtConstruction ==
  system = "constructed" =>
    LET built == construct(blueprint).graph
        order == overallOrder(built)
    IN /\ components.keys = built.keys
       /\ components.outgoingEdges = built.outgoingEdges
       /\ components.incomingEdges = built.incomingEdges
       /\ \A c \in 1..Len(calls) :
            IF order.cycle THEN calls[c].error = DependencyCycleFound
            ELSE calls[c].order =
                   IF calls[c].op = "start" THEN order.result ELSE Reverse(order.result)

\* A start() and a stop() that resolved on a System of three roles with
\* dependencies, a component having been replaced by a new instance.
C25_Witness ==
  /\ StartThenStop(1)
  /\ calls[2].result = "resolved"
  /\ Len(calls[1].order) = 3
  /\ calls[2].order = Reverse(calls[1].order)
  /\ \E r \in Declared : Len(components.outgoingEdges[r]) = 2
  /\ \E r \in Declared : getNodeData(components, r).id > Len(Names)
  /\ Cardinality(EventsOf(2, "stopped")) >= 2

\* ---------------------------------------------------------------- C26

\* C26: a component with start and stop but no inject is started, once and
\* as it is in the blueprint, by a first start() that resolves, and stopped
\* by a stop() after it that resolves if the instance its start resolved to
\* still has a lifecycle; a component with inject but without start or
\* without stop is injected with each dependency it declares by a first
\* start() that resolves, and no call ever invokes a start or a stop on it.
C26_CapabilitiesAreIndependent ==
  system = "constructed" =>
    \A r \in Declared :
      LET x == InitialValue(r)
          first == Len(calls) >= 1 /\ calls[1].op = "start" /\ calls[1].result = "resolved"
      IN /\ (ExposesLifecycle(x) /\ ~ExposesInject(x) /\ first) =>
              /\ Cardinality({k \in EventsOf(1, "started") :
                                log[k].role = r /\ log[k].target = x}) = 1
              /\ (StartThenStop(1) /\ calls[2].result = "resolved") =>
                   \A k \in EventsOf(1, "started") :
                     (log[k].role = r /\ ExposesLifecycle(log[k].result)) =>
                       \E k2 \in EventsOf(2, "stopped") :
                         log[k2].role = r /\ log[k2].target = log[k].result
         /\ (ExposesInject(x) /\ ~ExposesLifecycle(x)) =>
              /\ \A k \in 1..Len(log) :
                   log[k].role = r => log[k].ev = "inject"
              /\ first =>
                   \A d \in DeclaredDeps(r) :
                     \E k \in EventsOf(1, "inject") : log[k].role = r /\ log[k].dep = d

\* A start() and a stop() that resolved on a System in which a component with
\* inject and start but no stop depends on a component with start and stop and
\* no inject: the first was injected, the second started and stopped.
C26_Witness ==
  /\ StartThenStop(1)
  /\ calls[2].result = "resolved"
  /\ \E r, d \in Declared :
       /\ InitialValue(r).caps = {"inject", "start"}
       /\ InitialValue(d).caps = {"start", "stop"}
       /\ \E k \in EventsOf(1, "inject") : log[k].role = r /\ log[k].dep = d
       /\ \E k \in EventsOf(1, "started") : log[k].role = d
       /\ \E k \in EventsOf(2, "stopped") : log[k].role = d

\* ---------------------------------------------------------------- C27

\* C27: when the start of a role resolved, in a start() that resolved, to an
\* instance without start and stop, the stop() after it invokes nothing on
\* that role and is not rejected at it; until another call is made the role
\* holds that instance; and when the stop() resolves it has stopped every
\* role whose started instance has a lifecycle.
C27_StopSkipsWhatLostItsLifecycle ==
  \A c \in 1..Len(calls) : StartThenStop(c) =>
    \A k \in EventsOf(c, "started") : ~ExposesLifecycle(log[k].result) =>
      /\ \A k2 \in 1..Len(log) : log[k2].call = c + 1 => log[k2].role # log[k].role
      /\ calls[c + 1].result = "rejected" =>
           calls[c + 1].order[calls[c + 1].i] # log[k].role
      /\ c + 1 = Len(calls) =>
           getNodeData(components, log[k].role) = log[k].result
      /\ calls[c + 1].result = "resolved" =>
           /\ InSeq(log[k].role, calls[c + 1].visited)
           /\ \A k3 \in EventsOf(c, "started") : ExposesLifecycle(log[k3].result) =>
                \E k4 \in EventsOf(c + 1, "stopped") : log[k4].role = log[k3].role

\* A stop() that resolved after skipping a role whose start had resolved to
\* an instance without a lifecycle, and stopping two other roles, one before
\* and one after it in its order.
C27_Witness ==
  /\ StartThenStop(1)
  /\ calls[2].result = "resolved"
  /\ Len(calls[2].order) = 3
  /\ \E k \in EventsOf(1, "started") :
       /\ ~ExposesLifecycle(log[k].result)
       /\ calls[2].order[2] = log[k].role
       /\ getNodeData(components, log[k].role) = log[k].result
  /\ Cardinality(EventsOf(2, "stopped")) = 2

\* ---------------------------------------------------------------- C28

\* C28: the constructor never throws the missing-roles error: whenever the
\* loop over the blueprint's components ends without an error, every
\* declared role is a node of the graph, so the list of missing roles is
\* empty.
C28_MissingRolesCheckNeverFails ==
  /\ thrown # MissingRolesError
  /\ system # "none" =>
       LET r == addComponents(addNodes(EmptyGraph, blueprint.roles, 1),
                              blueprint.components, 1)
       IN r.error = NoError =>
            /\ system = "constructed"
            /\ \A role \in Declared : hasNode(r.graph, role)

\* A System constructed from a blueprint that declares a role and gives it no
\* component: the constructor reached its last check and passed it.
C28_Witness ==
  /\ system = "constructed"
  /\ \E role \in Declared : ~HasEntry(role) /\ hasNode(components, role)
  /\ \E role \in Declared : HasEntry(role)

====
